---------------------------- MODULE Spec2Model ----------------------------
(***************************************************************************)
(* Model of DeepFilterNet/df/modules.py: the Deep Filtering operator       *)
(* (DfOp), the exponential unit-norm normaliser, the grouped linear and    *)
(* recurrent blocks, the ERB filterbank and the masking stage.             *)
(*                                                                         *)
(* Tensors are sequences (1-based); the batch and channel axes have size 1 *)
(* as in the module's own tests, except the batch axis of Mask.  A complex *)
(* number is the pair <<re, im>>                                           *)
(* of the tensor's trailing axis of size 2.  Values are exact (integers or *)
(* reduced fractions), so "equal" below means equal, not close.            *)
(***************************************************************************)
EXTENDS Integers, Sequences, FiniteSets, TLC

VARIABLES
    \* ---- DfOp ----
    df_order,       \* DfOp.df_order
    df_lookahead,   \* DfOp.df_lookahead
    spec,           \* the input spectrum [T][F] complex
    coefs,          \* the DF coefficients [T][O][df_bins] complex
    alpha,          \* None or the per-frame blend factors [T]
    spec_buf,       \* DfOp.spec_buf [O][freq_bins], real_hidden_state_loop only
    fed,            \* number of frames given to real_hidden_state_loop so far
    stream_out,     \* the frames real_hidden_state_loop has returned so far
    out,            \* the last result of a batch or one-step forward call
    \* ---- ExponentialUnitNorm ----
    un_alpha,       \* ExponentialUnitNorm.alpha
    un_x,           \* the spectrum [T][F] complex given to the normaliser
    un_batch,       \* the result of one forward call on the whole sequence
    un_stream,      \* the results of forward calls on one frame each, in time order
    \* ---- GroupedLinear, GroupedGRULayer, GroupedGRU ----
    gmod,           \* the object a constructor call left, or the error it raised
    gx,             \* the input of the forward calls
    gout,           \* the result of forward on the whole input
    gpart1,         \* the result of forward on the first part of the input
    gpart2,         \* the result of forward on the rest, from the state of gpart1
    \* ---- erb_fb ----
    erb_widths,     \* the band widths
    erb_x,          \* a non-negative spectrum over sum(widths) bins
    erb_out,        \* the result of the forward and inverse projection of erb_x
    \* ---- Mask ----
    mask_cfg,       \* Mask's fields and mode
    mask_spec,      \* spec [B][T][F] complex
    mask_in,        \* mask [B][T][Fe]
    atten_lim,      \* None or the limit of each batch item [B], in dB
    mask_out        \* the result of Mask.forward

dfVars == <<df_order, df_lookahead, spec, coefs, alpha, spec_buf, fed, stream_out, out>>
unVars == <<un_alpha, un_x, un_batch, un_stream>>
gVars == <<gmod, gx, gout, gpart1, gpart2>>
erbVars == <<erb_widths, erb_x, erb_out>>
maskVars == <<mask_cfg, mask_spec, mask_in, atten_lim, mask_out>>

vars == <<dfVars, unVars, gVars, erbVars, maskVars>>

\* An absent Optional argument or result
None == <<>>

\* The parts of the state a specification of another component leaves alone
IdleDf ==
    /\ df_order = 0 /\ df_lookahead = 0 /\ spec = None /\ coefs = None /\ alpha = None
    /\ spec_buf = None /\ fed = 0 /\ stream_out = None /\ out = None
IdleUn == un_alpha = None /\ un_x = None /\ un_batch = None /\ un_stream = None
IdleG == gmod = None /\ gx = None /\ gout = None /\ gpart1 = None /\ gpart2 = None
IdleErb == erb_widths = None /\ erb_x = None /\ erb_out = None
IdleMask ==
    /\ mask_cfg = None /\ mask_spec = None /\ mask_in = None /\ atten_lim = None
    /\ mask_out = None

-----------------------------------------------------------------------------
(* Bounds of the model *)

MaxT == 2          \* DfOp: longest input sequence, in frames
MaxOrder == 3      \* DfOp: largest df_order
UnMaxT == 2        \* ExponentialUnitNorm: longest input sequence, in frames
MaxSize == 6       \* GroupedLinear: largest input_size and hidden_size
MaxGruSize == 4    \* GroupedGRULayer, GroupedGRU: largest input_size and hidden_size
MaxGroups == 3     \* grouped blocks: largest groups
MaxLayers == 2     \* GroupedGRU: largest num_layers
GruMaxT == 3       \* GroupedGRU: longest input sequence, in frames
GruMod == 5        \* the hidden values of the model's recurrent cell are 0..GruMod-1

-----------------------------------------------------------------------------
(* Complex arithmetic on <<re, im>> pairs *)

CZero == <<0, 0>>
CAdd(a, b) == <<a[1] + b[1], a[2] + b[2]>>
CMul(a, b) == <<a[1] * b[1] - a[2] * b[2], a[1] * b[2] + a[2] * b[1]>>
CScale(s, a) == <<s * a[1], s * a[2]>>

RECURSIVE CSum(_)
CSum(s) == IF s = <<>> THEN CZero ELSE CAdd(Head(s), CSum(Tail(s)))

RECURSIVE ISum(_)
ISum(s) == IF s = <<>> THEN 0 ELSE Head(s) + ISum(Tail(s))

-----------------------------------------------------------------------------
(* Exact fractions <<numerator, denominator>>, reduced, denominator > 0 *)

Abs(n) == IF n < 0 THEN -n ELSE n
Sgn(n) == IF n < 0 THEN -1 ELSE IF n = 0 THEN 0 ELSE 1

RECURSIVE Gcd(_, _)
Gcd(a, b) == IF b = 0 THEN a ELSE Gcd(b, a % b)

Frac(n, d) ==
    LET g == Gcd(Abs(n), Abs(d))
    IN  <<Sgn(d) * (n \div g), Abs(d) \div g>>
FInt(n) == <<n, 1>>
FAdd(a, b) ==
    LET l == (a[2] \div Gcd(a[2], b[2])) * b[2]
    IN  Frac(a[1] * (l \div a[2]) + b[1] * (l \div b[2]), l)
FNeg(a) == <<-a[1], a[2]>>
FSub(a, b) == FAdd(a, FNeg(b))
FMul(a, b) ==
    LET g1 == Gcd(Abs(a[1]), b[2])
        g2 == Gcd(Abs(b[1]), a[2])
    IN  Frac((a[1] \div g1) * (b[1] \div g2), (a[2] \div g2) * (b[2] \div g1))
FDiv(a, b) == FMul(a, <<Sgn(b[1]) * b[2], Abs(b[1])>>)
FLess(a, b) == a[1] * b[2] < b[1] * a[2]
FMax(a, b) == IF FLess(a, b) THEN b ELSE a

RECURSIVE FSum(_)
FSum(s) == IF s = <<>> THEN FInt(0) ELSE FAdd(Head(s), FSum(Tail(s)))

\* The square root of a fraction that is the square of a fraction
ISqrt(n) == CHOOSE r \in 0..n : r * r = n
FSqrt(a) == <<ISqrt(a[1]), ISqrt(a[2])>>

-----------------------------------------------------------------------------
(* DfOp: configuration *)

df_bins == 1       \* DfOp.df_bins: the bins the filter is applied to
freq_bins == 2     \* DfOp.freq_bins: all bins of a frame (F' in the source)

ZeroFrame(n) == [f \in 1..n |-> CZero]
ZeroFrames(k, n) == [i \in 1..k |-> ZeroFrame(n)]

\* spec[..., :df_bins, :] on a [T][F] array
LowBins(x) == [t \in 1..Len(x) |-> SubSeq(x[t], 1, df_bins)]

\* spec_pad(x, window_size, lookahead, dim=-3): F.pad along the time axis
spec_pad_swapped(x, window_size, lookahead) ==
    ZeroFrames(lookahead, Len(x[1])) \o x
        \o ZeroFrames(window_size - lookahead - 1, Len(x[1]))
spec_pad(x, window_size, lookahead) ==
    ZeroFrames(window_size - lookahead - 1, Len(x[1])) \o x
        \o ZeroFrames(lookahead, Len(x[1]))

\* as_strided(x, window_size, lookahead, dim=-3): strides [s0, s1, s1, s2, s3] over
\* the padded array, so view[t][o][f] = padded[t + o][f]
as_strided(x, window_size, lookahead) ==
    LET padded == spec_pad(x, window_size, lookahead)
    IN  [t \in 1..Len(x) |-> [o \in 1..window_size |-> padded[t + o - 1]]]

\* assign_df(spec, spec_f, df_bins, alpha): a is None or alpha.view(b, 1, -1, 1, 1)
assign_df(x, spec_f, a) ==
    [t \in 1..Len(x) |->
        [f \in 1..Len(x[t]) |->
            IF f <= df_bins
            THEN IF a = None
                 THEN spec_f[t][f]
                 ELSE CAdd(CScale(a[t], spec_f[t][f]), CScale(1 - a[t], x[t][f]))
            ELSE x[t][f]]]


\* sum over the tap axis (dim=2) of a [T][O][F] array of complex products
SumTaps(prod) ==
    [t \in 1..Len(prod) |->
        [f \in 1..Len(prod[t][1]) |->
            CSum([o \in 1..Len(prod[t]) |-> prod[t][o][f]])]]

\* One pass of the loop body of forward_real_loop for tap i (1-based): the four
\* in-place updates of spec_f[..., 0] and spec_f[..., 1]
real_loop_step(acc, padded, c, i) ==
    [t \in 1..Len(acc) |->
        [f \in 1..Len(acc[t]) |->
            LET p  == padded[t + i - 1][f]
                k  == c[t][i][f]
                r1 == acc[t][f][1] + p[1] * k[1]
                r2 == r1 - p[2] * k[2]
                i1 == acc[t][f][2] + p[2] * k[1]
                i2 == i1 + p[1] * k[2]
            IN  <<r2, i2>>]]

RECURSIVE real_loop_from(_, _, _, _)
real_loop_from(acc, padded, c, i) ==
    IF i > df_order THEN acc
    ELSE real_loop_from(real_loop_step(acc, padded, c, i), padded, c, i + 1)

\* DfOp.forward_real_loop
forward_real_loop(x, c, a) ==
    LET t      == Len(x)
        padded == spec_pad(LowBins(x), df_order, df_lookahead)
        spec_f == real_loop_from(ZeroFrames(t, df_bins), padded, c, 1)
    IN  assign_df(x, spec_f, a)

\* DfOp.forward_real_strided
forward_real_strided(x, c, a) ==
    LET padded == as_strided(LowBins(x), df_order, df_lookahead)
        prod   == [t \in 1..Len(x) |-> [o \in 1..df_order |-> [f \in 1..df_bins |->
                     LET re == padded[t][o][f][1] * c[t][o][f][1]
                                 - padded[t][o][f][2] * c[t][o][f][2]
                         im == padded[t][o][f][2] * c[t][o][f][1]
                                 + padded[t][o][f][1] * c[t][o][f][2]
                     IN  <<re, im>>]]]
    IN  assign_df(x, SumTaps(prod), a)

\* DfOp.forward_real_unfold
forward_real_unfold(x, c, a) ==
    LET padded   == spec_pad(LowBins(x), df_order, df_lookahead)
        \* padded.unfold(dimension=1, size=df_order, step=1): [T][F][O]
        unfolded == [t \in 1..(Len(padded) - df_order + 1) |->
                        [f \in 1..df_bins |-> [o \in 1..df_order |-> padded[t + o - 1][f]]]]
        \* .permute(0, 1, 4, 2, 3): [T][O][F]
        permuted == [t \in 1..Len(unfolded) |->
                        [o \in 1..df_order |-> [f \in 1..df_bins |-> unfolded[t][f][o]]]]
        prod     == [t \in 1..Len(permuted) |-> [o \in 1..df_order |-> [f \in 1..df_bins |->
                        <<permuted[t][o][f][1] * c[t][o][f][1]
                            - permuted[t][o][f][2] * c[t][o][f][2],
                          permuted[t][o][f][2] * c[t][o][f][1]
                            + permuted[t][o][f][1] * c[t][o][f][2]>>]]]
    IN  assign_df(x, SumTaps(prod), a)

\* DfOp.forward_complex_strided
forward_complex_strided(x, c, a) ==
    LET padded == as_strided(LowBins(x), df_order, df_lookahead)
        prod   == [t \in 1..Len(x) |-> [o \in 1..df_order |-> [f \in 1..df_bins |->
                     CMul(padded[t][o][f], c[t][o][f])]]]
    IN  assign_df(x, SumTaps(prod), a)

\* The dot product of real_one_step and real_hidden_state_loop over an O-frame
\* buffer and one frame's coefficients c1 ([O][df_bins]): outr and outi stacked
buf_dot(buf, c1) ==
    [f \in 1..df_bins |->
        <<ISum([o \in 1..df_order |-> buf[o][f][1] * c1[o][f][1] - buf[o][f][2] * c1[o][f][2]]),
          ISum([o \in 1..df_order |-> buf[o][f][1] * c1[o][f][2] + buf[o][f][2] * c1[o][f][1]])>>]

\* DfOp.forward_real_no_pad_one_step: win is the caller's [O][F'] window, c1 the
\* coefficients of one frame, a1 None or the one-element alpha; returns one frame
one_step_newest(win, c1, a1) ==
    assign_df(<<win[df_order]>>, <<buf_dot(win, c1)>>, a1)[1]
one_step_on_spec_buf(win, c1, a1) ==
    assign_df(<<spec_buf[df_order - df_lookahead]>>, <<buf_dot(spec_buf, c1)>>, a1)[1]
forward_real_no_pad_one_step(win, c1, a1) ==
    assign_df(<<win[df_order - df_lookahead]>>, <<buf_dot(win, c1)>>, a1)[1]

\* One iteration of the loop of forward_real_hidden_state_loop on buffer buf:
\* roll(-1, dims=2), overwrite the last slot, filter, assign_df
roll(buf) == Tail(buf) \o <<Head(buf)>>
hidden_state_insert_noroll(buf, frame) == [buf EXCEPT ![df_order] = frame]
hidden_state_insert(buf, frame) == [roll(buf) EXCEPT ![df_order] = frame]
hidden_state_frame(buf, c1, a1) ==
    assign_df(<<buf[df_order - df_lookahead]>>, <<buf_dot(buf, c1)>>, <<a1>>)[1]

\* DfOp.forward_real_hidden_state_loop on a chunk x with its coefficients c and
\* alpha a, starting from buffer buf: the returned spec_out and the buffer left
RECURSIVE hidden_state_loop_from(_, _, _, _, _, _)
hidden_state_loop_from(buf, x, c, a, t, acc) ==
    IF t > Len(x) THEN [spec_out |-> acc, spec_buf |-> buf]
    ELSE LET b2 == hidden_state_insert(buf, x[t])
         IN  hidden_state_loop_from(b2, x, c, a, t + 1,
                                    Append(acc, hidden_state_frame(b2, c[t], a[t])))
forward_real_hidden_state_loop(buf, x, c, a) ==
    hidden_state_loop_from(buf, x, c, a, 1, <<>>)

-----------------------------------------------------------------------------
(* DfOp: inputs, initial states and calls *)

SpecVals == {<<1, 0>>, <<0, 1>>}     \* values of the filtered bins: 1 and i
CoefVals == {<<1, 0>>, <<0, 1>>}     \* values of a coefficient: 1 and i
AlphaStart == {0, 2}                 \* alpha of the first frame; it grows by 1 a frame

\* A spectrum of T frames: the bins below df_bins range over SpecVals, and a bin
\* the filter must not touch holds a value that names its frame and bin
SpecInputs(T) ==
    {[t \in 1..T |-> [f \in 1..freq_bins |-> IF f <= df_bins THEN x[t][f] ELSE <<t, f>>]] :
        x \in [1..T -> [1..df_bins -> SpecVals]]}
\* Coefficients [T][O][df_bins]: any taps v, the same at every frame (s = 0) or
\* rotated by one tap from frame to frame (s = 1)
CoefInputs(T, O) ==
    {[t \in 1..T |-> [o \in 1..O |-> v[((o + s * t) % O) + 1]]] :
        v \in [1..O -> [1..df_bins -> CoefVals]], s \in {0, 1}}
AlphaInputs(T) == {[t \in 1..T |-> a0 + t - 1] : a0 \in AlphaStart}

BatchAlphas(T) == AlphaInputs(T) \cup {None}

NoOut == [method |-> "none", t |-> 0, val |-> <<>>]

\* DfOp.__init__ for every order and lookahead, with the inputs of one run
DfInputs(optional_alpha) ==
    \E O \in 1..MaxOrder, T \in 1..MaxT :
      \E L \in 0..(O - 1) :
        /\ df_order = O
        /\ df_lookahead = L
        /\ spec \in SpecInputs(T)
        /\ coefs \in CoefInputs(T, O)
        /\ alpha \in IF optional_alpha THEN BatchAlphas(T) ELSE AlphaInputs(T)
        /\ fed = 0
        /\ stream_out = <<>>
        /\ out = NoOut

\* A DfOp whose forward is one of the batch methods or real_one_step: no spec_buf
InitDfBatch ==
    /\ DfInputs(TRUE)
    /\ spec_buf = None
    /\ IdleUn /\ IdleG /\ IdleErb /\ IdleMask

\* set_forward("real_hidden_state_loop"): spec_buf registered as zeros
InitDfStream ==
    /\ DfInputs(FALSE)
    /\ spec_buf = ZeroFrames(df_order, freq_bins)
    /\ IdleUn /\ IdleG /\ IdleErb /\ IdleMask

dfInputs == <<df_order, df_lookahead, spec, coefs, alpha>>
notDf == <<unVars, gVars, erbVars, maskVars>>

RealLoop ==
    /\ out' = [method |-> "real_loop", t |-> 0,
               val |-> forward_real_loop(spec, coefs, alpha)]
    /\ UNCHANGED <<dfInputs, spec_buf, fed, stream_out, notDf>>

RealStrided ==
    /\ out' = [method |-> "real_strided", t |-> 0,
               val |-> forward_real_strided(spec, coefs, alpha)]
    /\ UNCHANGED <<dfInputs, spec_buf, fed, stream_out, notDf>>

RealUnfold ==
    /\ out' = [method |-> "real_unfold", t |-> 0,
               val |-> forward_real_unfold(spec, coefs, alpha)]
    /\ UNCHANGED <<dfInputs, spec_buf, fed, stream_out, notDf>>

ComplexStrided ==
    /\ out' = [method |-> "complex_strided", t |-> 0,
               val |-> forward_complex_strided(spec, coefs, alpha)]
    /\ UNCHANGED <<dfInputs, spec_buf, fed, stream_out, notDf>>

\* test_dfop's use of real_one_step for frame t: the caller pads the whole
\* spectrum with spec_pad and passes the window [t, t + O)
RealOneStep ==
    \E t \in 1..Len(spec) :
        LET spec_padded == spec_pad(spec, df_order, df_lookahead)
            win == SubSeq(spec_padded, t, t + df_order - 1)
            a1  == IF alpha = None THEN None ELSE <<alpha[t]>>
        IN  /\ out' = [method |-> "real_one_step", t |-> t,
                       val |-> forward_real_no_pad_one_step(win, coefs[t], a1)]
            /\ UNCHANGED <<dfInputs, spec_buf, fed, stream_out, notDf>>

\* One forward call of real_hidden_state_loop on the next n frames of the stream
HiddenStateLoop ==
    \E n \in 1..(Len(spec) - fed) :
        LET res == forward_real_hidden_state_loop(
                       spec_buf,
                       SubSeq(spec, fed + 1, fed + n),
                       SubSeq(coefs, fed + 1, fed + n),
                       SubSeq(alpha, fed + 1, fed + n))
        IN  /\ spec_buf' = res.spec_buf
            /\ stream_out' = stream_out \o res.spec_out
            /\ fed' = fed + n
            /\ UNCHANGED <<dfInputs, out, notDf>>

NextDfBatch == RealLoop \/ RealStrided \/ RealUnfold \/ ComplexStrided \/ RealOneStep
SpecDfBatch == InitDfBatch /\ [][NextDfBatch]_vars

NextDfStream == HiddenStateLoop
SpecDfStream == InitDfStream /\ [][NextDfStream]_vars

-----------------------------------------------------------------------------
(* DfOp: properties *)

BatchMethods == {"real_loop", "real_strided", "real_unfold", "complex_strided"}

\* The input spectrum at frame j, a frame before the first or after the last
\* counting as zero
SpecOrZero(j, f) == IF j \in 1..Len(spec) THEN spec[j][f] ELSE CZero

\* R of frame t and bin f: the complex sum over the taps k = 0..O-1 of
\* X[t - (O - 1 - L) + k, f] * coef[t, k, f]
Refined(t, f) ==
    CSum([k \in 1..df_order |->
            CMul(SpecOrZero(t - (df_order - 1 - df_lookahead) + (k - 1), f),
                 coefs[t][k][f])])

Blended(t, f) ==
    IF alpha = None THEN Refined(t, f)
    ELSE CAdd(CScale(alpha[t], Refined(t, f)), CScale(1 - alpha[t], spec[t][f]))

\* C1: real_hidden_state_loop, started on an all-zero buffer and fed the frames in
\* time order, returns at every frame t the frame the batch mode returns at t
C1_StreamEqualsBatch ==
    \A t \in 1..Len(stream_out) :
        stream_out[t] = forward_real_unfold(spec, coefs, alpha)[t]

\* C4: every batch method returns, at every frame t and bin f < df_bins,
\* alpha[t]*R + (1-alpha[t])*X[t,f] when alpha is given and R when it is not
C4_BatchFormula ==
    out.method \in BatchMethods =>
        /\ Len(out.val) = Len(spec)
        /\ \A t \in 1..Len(spec) : \A f \in 1..df_bins : out.val[t][f] = Blended(t, f)

C4_Witness ==
    /\ out.method = "complex_strided"
    /\ df_order = 2 /\ df_lookahead = 1 /\ Len(spec) = 2
    /\ alpha # None /\ alpha[1] = 2

\* C5: real_one_step on the window [t, t+O) of the padded spectrum, with the
\* coefficients and alpha of frame t, returns the frame the batch methods return at t
C5_OneStepEqualsBatch ==
    out.method = "real_one_step" =>
        /\ out.val = forward_real_loop(spec, coefs, alpha)[out.t]
        /\ out.val = forward_real_strided(spec, coefs, alpha)[out.t]
        /\ out.val = forward_real_unfold(spec, coefs, alpha)[out.t]
        /\ out.val = forward_complex_strided(spec, coefs, alpha)[out.t]

C5_Witness ==
    /\ out.method = "real_one_step" /\ out.t = 2
    /\ df_order = 2 /\ df_lookahead = 1
    /\ alpha # None

\* C7: in every evaluation mode the output at (t, f), f >= df_bins, is the input
\* spectrum's value at (t, f)
C7_HighBinsUntouched ==
    /\ out.method \in BatchMethods =>
          \A t \in 1..Len(spec) : \A f \in (df_bins + 1)..freq_bins :
              out.val[t][f] = spec[t][f]
    /\ out.method = "real_one_step" =>
          \A f \in (df_bins + 1)..freq_bins : out.val[f] = spec[out.t][f]
    /\ \A t \in 1..Len(stream_out) : \A f \in (df_bins + 1)..freq_bins :
          stream_out[t][f] = spec[t][f]

\* C15: in real_hidden_state_loop mode the buffer always has df_order slots, and
\* after fed frames in total (over forward calls of any lengths) slot k, counted
\* from 1, holds frame fed - df_order + k of the fed sequence when that frame
\* exists and zeros otherwise: the last df_order frames, oldest first
C15_BufferHoldsLastFrames ==
    spec_buf # None =>
        /\ Len(spec_buf) = df_order
        /\ \A k \in 1..df_order :
              spec_buf[k] = IF fed - df_order + k >= 1
                            THEN spec[fed - df_order + k]
                            ELSE ZeroFrame(freq_bins)

C15_Witness ==
    /\ spec_buf # None /\ df_order = 2 /\ fed = 2
    /\ spec[1] # spec[2]
    /\ spec_buf = <<spec[1], spec[2]>>
    /\ Len(stream_out) = 2

-----------------------------------------------------------------------------
(* DfOp: calls with a coefficient array of any number of taps *)

\* How the tap axis (dim 2) of the coefficients of one frame meets the df_order
\* taps of the spectrum window.  truncates: the method indexes the taps
\* 0..df_order-1 one by one; coef_expands: a single tap is broadcast against the
\* window; spec_expands: a window of one frame is broadcast against the taps, and
\* the sum over dim 2 then adds the products of all taps (here as one tap that
\* is their sum).  None: the method raises.
taps_as_used(c1, truncates, coef_expands, spec_expands) ==
    IF Len(c1) = df_order THEN c1
    ELSE IF truncates
         THEN IF Len(c1) > df_order THEN SubSeq(c1, 1, df_order) ELSE None
    ELSE IF coef_expands /\ Len(c1) = 1 THEN [o \in 1..df_order |-> c1[1]]
    ELSE IF spec_expands /\ df_order = 1
         THEN <<[f \in 1..Len(c1[1]) |-> CSum([o \in 1..Len(c1) |-> c1[o][f]])]>>
    ELSE None

\* The coefficients [T][taps][F] as a method uses them, or None when it raises
coefs_as_used(c, truncates, coef_expands, spec_expands) ==
    LET used == [t \in 1..Len(c) |->
                    taps_as_used(c[t], truncates, coef_expands, spec_expands)]
    IN  IF \E t \in 1..Len(c) : used[t] = None THEN None ELSE used

Raises(method, error) == [method |-> method, status |-> error, val |-> None]
Returns(method, val) == [method |-> method, status |-> "ok", val |-> val]

\* A DfOp in real_hidden_state_loop mode and one call's arguments, the
\* coefficients with 1..MaxOrder+1 taps whatever df_order is
InitDfShape ==
    /\ \E O \in 1..MaxOrder, T \in 1..MaxT, taps \in 1..(MaxOrder + 1) :
         \E L \in 0..(O - 1) :
           /\ df_order = O
           /\ df_lookahead = L
           /\ spec \in SpecInputs(T)
           /\ coefs \in CoefInputs(T, taps)
           /\ alpha \in AlphaInputs(T)
    /\ spec_buf = ZeroFrames(df_order, freq_bins)
    /\ fed = 0
    /\ stream_out = <<>>
    /\ out = [method |-> "none", status |-> "none", val |-> None]
    /\ IdleUn /\ IdleG /\ IdleErb /\ IdleMask

RealLoopShaped ==
    /\ LET c == coefs_as_used(coefs, TRUE, FALSE, FALSE)
       IN  out' = IF c = None THEN Raises("real_loop", "IndexError")
                  ELSE Returns("real_loop", forward_real_loop(spec, c, alpha))
    /\ UNCHANGED <<dfInputs, spec_buf, fed, stream_out, notDf>>

RealStridedShaped ==
    /\ LET c == coefs_as_used(coefs, FALSE, TRUE, TRUE)
       IN  out' = IF c = None THEN Raises("real_strided", "RuntimeError")
                  ELSE Returns("real_strided", forward_real_strided(spec, c, alpha))
    /\ UNCHANGED <<dfInputs, spec_buf, fed, stream_out, notDf>>

\* spec_f = torch.empty_like(padded) fixes df_order taps: only a single
\* coefficient tap can be broadcast into it
RealUnfoldShaped ==
    /\ LET c == coefs_as_used(coefs, FALSE, TRUE, FALSE)
       IN  out' = IF c = None THEN Raises("real_unfold", "RuntimeError")
                  ELSE Returns("real_unfold", forward_real_unfold(spec, c, alpha))
    /\ UNCHANGED <<dfInputs, spec_buf, fed, stream_out, notDf>>

ComplexStridedShaped ==
    /\ LET c == coefs_as_used(coefs, FALSE, TRUE, TRUE)
       IN  out' = IF c = None THEN Raises("complex_strided", "RuntimeError")
                  ELSE Returns("complex_strided", forward_complex_strided(spec, c, alpha))
    /\ UNCHANGED <<dfInputs, spec_buf, fed, stream_out, notDf>>

RealOneStepShaped ==
    /\ \E t \in 1..Len(spec) :
        LET spec_padded == spec_pad(spec, df_order, df_lookahead)
            win == SubSeq(spec_padded, t, t + df_order - 1)
            c1  == taps_as_used(coefs[t], FALSE, TRUE, TRUE)
        IN  out' = IF c1 = None THEN Raises("real_one_step", "RuntimeError")
                   ELSE Returns("real_one_step",
                                forward_real_no_pad_one_step(win, c1, <<alpha[t]>>))
    /\ UNCHANGED <<dfInputs, spec_buf, fed, stream_out, notDf>>

\* One forward call on the whole sequence; when the product raises, the first
\* frame has already been rolled into spec_buf
HiddenStateLoopShaped ==
    /\ fed = 0
    /\ LET c == coefs_as_used(coefs, FALSE, TRUE, TRUE)
       IN  IF c = None
           THEN /\ out' = Raises("real_hidden_state_loop", "RuntimeError")
                /\ spec_buf' = hidden_state_insert(spec_buf, spec[1])
                /\ fed' = 1
           ELSE LET res == forward_real_hidden_state_loop(spec_buf, spec, c, alpha)
                IN  /\ out' = Returns("real_hidden_state_loop", res.spec_out)
                    /\ spec_buf' = res.spec_buf
                    /\ fed' = Len(spec)
    /\ UNCHANGED <<dfInputs, stream_out, notDf>>

NextDfShape ==
    \/ RealLoopShaped \/ RealStridedShaped \/ RealUnfoldShaped
    \/ ComplexStridedShaped \/ RealOneStepShaped \/ HiddenStateLoopShaped
SpecDfShape == InitDfShape /\ [][NextDfShape]_vars

\* C13: in every mode a call whose coefficient array does not have exactly
\* df_order taps (and df_bins bins) per frame fails with an error: no result
\* is computed from a truncated or broadcast coefficient array
C13_WrongShapeFails ==
    (out # None /\ out.status # "none" /\ Len(coefs[1]) # df_order) =>
        out.status # "ok"

-----------------------------------------------------------------------------
(* DfOp: two streams served frame by frame by one DfOp *)

Streams == {1, 2}

\* The second stream: the other value in every filtered bin, its own tags above
OtherStream(x) ==
    [t \in 1..Len(x) |-> [f \in 1..freq_bins |->
        IF f <= df_bins THEN (IF x[t][f] = <<1, 0>> THEN <<0, 1>> ELSE <<1, 0>>)
        ELSE <<t + MaxT, f>>]]

StreamModes == {"real_one_step", "real_hidden_state_loop"}

\* One DfOp with spec_buf registered; spec[s] is the sequence of stream s, out.method[s]
\* the method its caller uses, fed[s] its frames fed and stream_out[s] its outputs
InitDfShared ==
    /\ \E O \in 1..MaxOrder, T \in 1..MaxT :
         \E L \in 0..(O - 1), x \in SpecInputs(T) :
           /\ df_order = O
           /\ df_lookahead = L
           /\ spec = <<x, OtherStream(x)>>
           /\ coefs \in CoefInputs(T, O)
           /\ alpha \in AlphaInputs(T)
    /\ spec_buf = ZeroFrames(df_order, freq_bins)
    /\ fed = <<0, 0>>
    /\ stream_out = <<<<>>, <<>>>>
    /\ \E m1 \in StreamModes, m2 \in StreamModes :
           out = [method |-> <<m1, m2>>, t |-> 0, val |-> <<>>]
    /\ IdleUn /\ IdleG /\ IdleErb /\ IdleMask

\* The caller of stream s passes the window of its next frame, kept on its side,
\* to forward_real_no_pad_one_step
SharedOneStep ==
    \E s \in Streams :
        /\ out.method[s] = "real_one_step"
        /\ fed[s] < Len(spec[s])
        /\ LET t   == fed[s] + 1
               win == SubSeq(spec_pad(spec[s], df_order, df_lookahead), t, t + df_order - 1)
               y   == forward_real_no_pad_one_step(win, coefs[t], <<alpha[t]>>)
           IN  /\ stream_out' = [stream_out EXCEPT ![s] = Append(@, y)]
               /\ fed' = [fed EXCEPT ![s] = t]
        /\ UNCHANGED <<dfInputs, spec_buf, out, notDf>>

\* The caller of stream s passes its next frame to forward_real_hidden_state_loop
SharedHiddenState ==
    \E s \in Streams :
        /\ out.method[s] = "real_hidden_state_loop"
        /\ fed[s] < Len(spec[s])
        /\ LET t   == fed[s] + 1
               res == forward_real_hidden_state_loop(spec_buf, <<spec[s][t]>>,
                                                     <<coefs[t]>>, <<alpha[t]>>)
           IN  /\ stream_out' = [stream_out EXCEPT ![s] = Append(@, res.spec_out[1])]
               /\ spec_buf' = res.spec_buf
               /\ fed' = [fed EXCEPT ![s] = t]
        /\ UNCHANGED <<dfInputs, out, notDf>>

NextDfShared == SharedOneStep \/ SharedHiddenState
SpecDfShared == InitDfShared /\ [][NextDfShared]_vars

\* The outputs stream s gets when it is the only stream of a fresh DfOp
Alone(s) ==
    IF out.method[s] = "real_one_step"
    THEN [t \in 1..Len(spec[s]) |->
            forward_real_no_pad_one_step(
                SubSeq(spec_pad(spec[s], df_order, df_lookahead), t, t + df_order - 1),
                coefs[t], <<alpha[t]>>)]
    ELSE forward_real_hidden_state_loop(ZeroFrames(df_order, freq_bins), spec[s],
                                        coefs, alpha).spec_out

\* C14 as stated: no mode keeps history in the DfOp, so with the calls of two
\* streams interleaved in any order each stream gets at every frame the output
\* it gets alone
C14_InterleavedEqualsAlone ==
    \A s \in Streams : \A t \in 1..Len(stream_out[s]) :
        stream_out[s][t] = Alone(s)[t]

\* C14 amended: a real_one_step stream gets at every frame the output of its
\* own frames, coefficients and alpha (the batch result on its sequence),
\* whatever calls of the other stream come in between
C14_OneStepStreamsIndependent ==
    \A s \in Streams :
        out.method[s] = "real_one_step" =>
            \A t \in 1..Len(stream_out[s]) :
                stream_out[s][t] = forward_real_unfold(spec[s], coefs, alpha)[t]

C14_Witness ==
    /\ out.method = <<"real_one_step", "real_hidden_state_loop">>
    /\ df_order = 2 /\ df_lookahead = 1
    /\ Len(spec[1]) = 2 /\ fed = <<2, 2>>
    /\ spec_buf = spec[2]
    /\ stream_out[1] = forward_real_unfold(spec[1], coefs, alpha)
    /\ stream_out[1] # stream_out[2]

-----------------------------------------------------------------------------
(* ExponentialUnitNorm *)

un_bins == 2                       \* num_freq_bins
un_eps == <<1, 100>>               \* eps, the floor of the squared magnitude
\* init_state: unit_norm_init(num_freq_bins), a fixed positive table that falls
\* with the bin
un_init_state == [f \in 1..un_bins |-> <<un_bins + 1 - f, 2>>]

\* x / sqrt(state) for a real x is represented by the fraction sgn(x) * x^2 / state,
\* which is equal for two quotients exactly when the quotients are equal
UnitQuot(x, state) == FDiv(FInt(Sgn(x) * x * x), state)

\* One step of the loop of forward: state = x_abs[:, :, t] * (1 - alpha) + state * alpha
un_step(state, x_abs_t, a) ==
    [f \in 1..Len(state) |->
        FAdd(FMul(x_abs_t[f], FSub(FInt(1), a)), FMul(state[f], a))]

RECURSIVE un_states(_, _, _, _)
un_states(state, x_abs, a, t) ==
    IF t > Len(x_abs) THEN <<>>
    ELSE LET s2 == un_step(state, x_abs[t], a)
         IN  <<s2>> \o un_states(s2, x_abs, a, t + 1)

\* ExponentialUnitNorm.forward: every call starts from init_state
un_forward(x) ==
    LET x_abs == [t \in 1..Len(x) |-> [f \in 1..Len(x[t]) |->
                    FSqrt(FMax(FInt(x[t][f][1] * x[t][f][1] + x[t][f][2] * x[t][f][2]),
                               un_eps))]]
        out_states == un_states(un_init_state, x_abs, un_alpha, 1)
    IN  [t \in 1..Len(x) |-> [f \in 1..Len(x[t]) |->
            <<UnitQuot(x[t][f][1], out_states[t][f]),
              UnitQuot(x[t][f][2], out_states[t][f])>>]]

UnVals == {<<0, 0>>, <<1, 0>>, <<3, 4>>}     \* bins with a rational magnitude
UnAlphas == {<<1, 2>>, <<3, 4>>}

notUn == <<dfVars, gVars, erbVars, maskVars>>

InitUn ==
    /\ un_alpha \in UnAlphas
    /\ \E T \in 1..UnMaxT : un_x \in [1..T -> [1..un_bins -> UnVals]]
    /\ un_batch = None
    /\ un_stream = <<>>
    /\ IdleDf /\ IdleG /\ IdleErb /\ IdleMask

\* One call on the whole sequence
UnBatch ==
    /\ un_batch' = un_forward(un_x)
    /\ UNCHANGED <<un_alpha, un_x, un_stream, notUn>>

\* One call on the next frame alone
UnStreamFrame ==
    /\ Len(un_stream) < Len(un_x)
    /\ un_stream' = un_stream \o un_forward(<<un_x[Len(un_stream) + 1]>>)
    /\ UNCHANGED <<un_alpha, un_x, un_batch, notUn>>

NextUn == UnBatch \/ UnStreamFrame
SpecUn == InitUn /\ [][NextUn]_vars

\* C2: one frame per call, in time order, gives at every frame t the output that
\* one call on the whole sequence gives at t
C2_StreamEqualsBatch ==
    un_batch # None =>
        \A t \in 1..Len(un_stream) : un_stream[t] = un_batch[t]

-----------------------------------------------------------------------------
(* Grouped blocks: tensor helpers and the sub-layers *)

\* A tensor holds its elements: the sequence s with every element computed
Tensor(s) == s \o <<>>

RECURSIVE Concat(_)
Concat(ss) == IF ss = <<>> THEN <<>> ELSE Head(ss) \o Concat(Tail(ss))

\* v.view(rows, cols), m.transpose(-1, -2) and m.reshape(-1) of a contiguous vector
View2(v, rows, cols) ==
    Tensor([r \in 1..rows |-> Tensor([c \in 1..cols |-> v[(r - 1) * cols + c]])])
Transpose(m) ==
    Tensor([c \in 1..Len(m[1]) |-> Tensor([r \in 1..Len(m) |-> m[r][c]])])
Flatten(m) == Concat(m)

\* x[..., i * size : (i + 1) * size] for the 0-based group index i = g - 1
Slice(x, g, size) == SubSeq(x, (g - 1) * size + 1, g * size)

\* nn.Linear(input_size, hidden_size) of group g: y = W x + b, with fixed weights
LinW(g, j, i) == 1 + ((g + j + i) % 2)
LinB(g, j) == 10 * g + j
Linear(g, x, hidden) ==
    Tensor([j \in 1..hidden |->
               LinB(g, j) + ISum([i \in 1..Len(x) |-> LinW(g, j, i) * x[i]])])

\* One step of the recurrent cell of the nn.GRU of layer l, group g, direction d:
\* the next hidden vector from the input x and the hidden vector h
GruCell(l, g, d, x, h) ==
    Tensor([j \in 1..Len(h) |->
        (l + g + d + j
           + ISum([i \in 1..Len(x) |-> (1 + ((i + j) % 2)) * x[i]])
           + ISum([k \in 1..Len(h) |-> (1 + ((k + j + g) % 2)) * h[k]])) % GruMod])

\* The hidden vectors after each of the frames order[1], order[2], ... of xs
RECURSIVE GruRun(_, _, _, _, _, _)
GruRun(l, g, d, xs, h, order) ==
    IF order = <<>> THEN <<>>
    ELSE LET h2 == GruCell(l, g, d, xs[Head(order)], h)
         IN  <<h2>> \o GruRun(l, g, d, xs, h2, Tail(order))

\* An nn.GRU whose output leaves out the backward direction
GRU_forward_only(l, g, D, xs, h0) ==
    LET fw == GruRun(l, g, 1, xs, h0[1], Tensor([t \in 1..Len(xs) |-> t]))
    IN  [o |-> fw, s |-> <<fw[Len(xs)]>>]

\* nn.GRU(input_size, hidden_size, bidirectional)(xs, h0): the output of frame t is
\* the forward hidden vector after frame t, followed when bidirectional by the
\* backward hidden vector, which runs from the last frame down to frame t; h_n is
\* the last hidden vector of each direction
GRU(l, g, D, xs, h0) ==
    LET T   == Len(xs)
        fw  == GruRun(l, g, 1, xs, h0[1], Tensor([t \in 1..T |-> t]))
        bw  == IF D = 2
               THEN GruRun(l, g, 2, xs, h0[2], Tensor([t \in 1..T |-> T + 1 - t]))
               ELSE <<>>
    IN  [o |-> Tensor([t \in 1..T |-> IF D = 2 THEN fw[t] \o bw[T + 1 - t] ELSE fw[t]]),
         s |-> IF D = 2 THEN <<fw[T], bw[T]>> ELSE <<fw[T]>>]

-----------------------------------------------------------------------------
(* Grouped blocks: constructors *)

\* A constructor that raised: an assert failed after n sub-layers were created
Raised(cls, args, n) ==
    [cls |-> cls, status |-> "AssertionError", args |-> args, sublayers |-> n]

\* GroupedLinear.__init__
GroupedLinear_init_unchecked(input_size, hidden_size, groups, shuffle) ==
    [cls |-> "GroupedLinear", status |-> "ok",
     args |-> [input_size |-> input_size, hidden_size |-> hidden_size, groups |-> groups],
     groups |-> groups,
     input_size |-> input_size \div groups,
     hidden_size |-> hidden_size \div groups,
     shuffle |-> IF groups = 1 THEN FALSE ELSE shuffle,
     sublayers |-> groups]
GroupedLinear_init(input_size, hidden_size, groups, shuffle) ==
    LET args == [input_size |-> input_size, hidden_size |-> hidden_size, groups |-> groups]
    IN  IF input_size % groups # 0 THEN Raised("GroupedLinear", args, 0)
        ELSE IF hidden_size % groups # 0 THEN Raised("GroupedLinear", args, 0)
        ELSE [cls |-> "GroupedLinear", status |-> "ok", args |-> args,
              groups |-> groups,
              input_size |-> input_size \div groups,
              hidden_size |-> hidden_size \div groups,
              shuffle |-> IF groups = 1 THEN FALSE ELSE shuffle,
              sublayers |-> groups]

\* GroupedGRULayer.__init__
GroupedGRULayer_init(input_size, hidden_size, groups, bidirectional) ==
    LET args == [input_size |-> input_size, hidden_size |-> hidden_size, groups |-> groups]
    IN  IF input_size % groups # 0 THEN Raised("GroupedGRULayer", args, 0)
        ELSE IF hidden_size % groups # 0 THEN Raised("GroupedGRULayer", args, 0)
        ELSE IF (hidden_size \div groups) % groups # 0
             THEN Raised("GroupedGRULayer", args, 0)
        ELSE [cls |-> "GroupedGRULayer", status |-> "ok", args |-> args,
              input_size |-> input_size \div groups,
              hidden_size |-> hidden_size \div groups,
              out_size |-> hidden_size,
              bidirectional |-> bidirectional,
              num_directions |-> IF bidirectional THEN 2 ELSE 1,
              groups |-> groups,
              sublayers |-> groups]

\* The loop of GroupedGRU.__init__ that appends the layers 2..num_layers to grus
RECURSIVE GroupedGRU_append(_, _, _, _, _)
GroupedGRU_append(grus, hidden_size, groups, bidirectional, left) ==
    IF left = 0 \/ grus[Len(grus)].status # "ok" THEN grus
    ELSE GroupedGRU_append(
             Append(grus, GroupedGRULayer_init(hidden_size, hidden_size, groups,
                                               bidirectional)),
             hidden_size, groups, bidirectional, left - 1)

\* GroupedGRU.__init__
GroupedGRU_init(input_size, hidden_size, num_layers, groups, bidirectional, shuffle, add_outputs) ==
    LET args == [input_size |-> input_size, hidden_size |-> hidden_size, groups |-> groups]
        grus == GroupedGRU_append(
                    <<GroupedGRULayer_init(input_size, hidden_size, groups, bidirectional)>>,
                    hidden_size, groups, bidirectional, num_layers - 1)
        built == ISum([i \in 1..Len(grus) |-> grus[i].sublayers])
    IN  IF input_size % groups # 0 THEN Raised("GroupedGRU", args, 0)
        ELSE IF hidden_size % groups # 0 THEN Raised("GroupedGRU", args, 0)
        ELSE IF grus[Len(grus)].status # "ok" THEN Raised("GroupedGRU", args, built)
        ELSE [cls |-> "GroupedGRU", status |-> "ok", args |-> args,
              groups |-> groups,
              num_layers |-> num_layers,
              hidden_size |-> hidden_size \div groups,
              bidirectional |-> bidirectional,
              num_directions |-> IF bidirectional THEN 2 ELSE 1,
              shuffle |-> IF groups = 1 THEN FALSE ELSE shuffle,
              add_outputs |-> add_outputs,
              grus |-> grus,
              sublayers |-> built]

-----------------------------------------------------------------------------
(* Grouped blocks: forward *)

\* GroupedLinear.forward on one feature vector x: the concatenated group outputs
\* (cat) and the returned output
linear_shuffle(m, output) ==
    Flatten(Transpose(View2(output, m.hidden_size, m.groups)))
GroupedLinear_forward(m, x) ==
    LET outputs == Tensor([g \in 1..m.groups |->
                       Linear(g, Slice(x, g, m.input_size), m.hidden_size)])
        output  == Concat(outputs)
    IN  [cat |-> output,
         output |-> IF m.shuffle THEN linear_shuffle(m, output) ELSE output]

\* get_h0: the all-zero state of n blocks of width h
ZeroState(n, h) == Tensor([i \in 1..n |-> Tensor([j \in 1..h |-> 0])])

\* h0[i * num_directions : (i + 1) * num_directions] for the 0-based group i = g - 1
h0_slice(h0, g, D) == SubSeq(h0, (g - 1) * D + 1, g * D)

\* GroupedGRULayer.forward of layer l on input [T][I] with state h0 (None: zeros)
GroupedGRULayer_forward(m, l, input, h0) ==
    LET D     == m.num_directions
        h     == IF h0 = None THEN ZeroState(m.groups * D, m.hidden_size) ELSE h0
        res   == Tensor([g \in 1..m.groups |->
                     GRU(l, g, D,
                         Tensor([t \in 1..Len(input) |->
                                    Slice(input[t], g, m.input_size)]),
                         h0_slice(h, g, D))])
    IN  [output |-> Tensor([t \in 1..Len(input) |->
                       Concat(Tensor([g \in 1..m.groups |-> res[g].o[t]]))]),
         h |-> Concat(Tensor([g \in 1..m.groups |-> res[g].s]))]

\* input.view(dim0, dim1, -1, groups).transpose(2, 3).reshape(dim0, dim1, -1)
gru_shuffle(m, input) ==
    Tensor([t \in 1..Len(input) |->
        Flatten(Transpose(View2(input[t], Len(input[t]) \div m.groups, m.groups)))])

\* state[i * h : (i + 1) * h] for the 0-based layer i = l - 1
state_slice_first(state, l, h) == SubSeq(state, 1, h)
state_slice(state, l, h) == SubSeq(state, (l - 1) * h + 1, l * h)

\* The loop of GroupedGRU.forward from layer l on: acc holds input, output, the
\* states so far and, for each layer, its output before and after the shuffle
RECURSIVE GroupedGRU_loop(_, _, _, _)
GroupedGRU_loop(m, state, l, acc) ==
    IF l > Len(m.grus) THEN acc
    ELSE LET h    == m.groups * m.num_directions
             r    == GroupedGRULayer_forward(m.grus[l], l, acc.input,
                                             state_slice(state, l, h))
             shuf == m.shuffle /\ l - 1 < m.num_layers - 1
             inp  == IF shuf THEN gru_shuffle(m, r.output) ELSE r.output
             outp == IF m.add_outputs
                     THEN Tensor([t \in 1..Len(inp) |->
                              Tensor([j \in 1..Len(inp[t]) |->
                                         acc.output[t][j] + inp[t][j]])])
                     ELSE inp
         IN  GroupedGRU_loop(m, state, l + 1,
                 [input |-> inp, output |-> outp,
                  outstates |-> acc.outstates \o r.h,
                  layers |-> Append(acc.layers,
                                    [shuffled |-> shuf, cat |-> r.output, next |-> inp])])

\* GroupedGRU.forward on input [T][I] with state (None: get_h0)
GroupedGRU_forward(m, input, state) ==
    LET st  == IF state = None
               THEN ZeroState(m.num_layers * m.groups * m.num_directions, m.hidden_size)
               ELSE state
        w   == m.hidden_size * m.num_directions * m.groups
        acc == GroupedGRU_loop(m, st, 1,
                   [input |-> input,
                    output |-> ZeroState(Len(input), w),
                    outstates |-> <<>>, layers |-> <<>>])
    IN  [output |-> acc.output, state |-> acc.outstates, layers |-> acc.layers]

-----------------------------------------------------------------------------
(* Grouped blocks: construction and calls *)

LinInputs(n) == [1..n -> {0, 1}]
\* Input sequences [T][n]: the same frame at every t (k = 0) or alternating frames
GruInputs(n) ==
    {Tensor([t \in 1..T |-> Tensor([i \in 1..n |-> (i + k * t) % 2])]) :
        T \in 1..GruMaxT, k \in 0..1}

notG == <<dfVars, unVars, erbVars, maskVars>>

InitG ==
    /\ gmod = None /\ gx = None /\ gout = None /\ gpart1 = None /\ gpart2 = None
    /\ IdleDf /\ IdleUn /\ IdleErb /\ IdleMask

\* m = GroupedLinear(input_size, hidden_size, groups, shuffle), and an input for it
NewGroupedLinear ==
    /\ gmod = None
    /\ \E input_size \in 1..MaxSize, hidden_size \in 1..MaxSize, groups \in 1..MaxGroups,
          shuffle \in BOOLEAN :
          /\ gmod' = GroupedLinear_init(input_size, hidden_size, groups, shuffle)
          /\ gx' \in IF gmod'.status = "ok" THEN LinInputs(input_size) ELSE {None}
    /\ UNCHANGED <<gout, gpart1, gpart2, notG>>

\* m = GroupedGRULayer(input_size, hidden_size, groups, bidirectional=...)
NewGroupedGRULayer ==
    /\ gmod = None
    /\ \E input_size \in 1..MaxGruSize, hidden_size \in 1..MaxGruSize,
          groups \in 1..MaxGroups, bidirectional \in BOOLEAN :
          /\ gmod' = GroupedGRULayer_init(input_size, hidden_size, groups, bidirectional)
          /\ gx' \in IF gmod'.status = "ok" THEN GruInputs(input_size) ELSE {None}
    /\ UNCHANGED <<gout, gpart1, gpart2, notG>>

\* m = GroupedGRU(input_size, hidden_size, num_layers, groups, ...)
NewGroupedGRU ==
    /\ gmod = None
    /\ \E input_size \in 1..MaxGruSize, hidden_size \in 1..MaxGruSize,
          num_layers \in 1..MaxLayers, groups \in 1..MaxGroups,
          bidirectional \in BOOLEAN, shuffle \in BOOLEAN, add_outputs \in BOOLEAN :
          /\ gmod' = GroupedGRU_init(input_size, hidden_size, num_layers, groups,
                                     bidirectional, shuffle, add_outputs)
          /\ gx' \in IF gmod'.status = "ok" THEN GruInputs(input_size) ELSE {None}
    /\ UNCHANGED <<gout, gpart1, gpart2, notG>>

Constructed(cls) == gmod # None /\ gmod.cls = cls /\ gmod.status = "ok"

\* m(x)
LinearForward ==
    /\ Constructed("GroupedLinear")
    /\ gout' = GroupedLinear_forward(gmod, gx)
    /\ UNCHANGED <<gmod, gx, gpart1, gpart2, notG>>

\* m(input) with the default h0
GruLayerForward ==
    /\ Constructed("GroupedGRULayer")
    /\ gout' = GroupedGRULayer_forward(gmod, 1, gx, None)
    /\ UNCHANGED <<gmod, gx, gpart1, gpart2, notG>>

\* m(input) on the whole sequence with the default state
GruForward ==
    /\ Constructed("GroupedGRU")
    /\ gout' = GroupedGRU_forward(gmod, gx, None)
    /\ UNCHANGED <<gmod, gx, gpart1, gpart2, notG>>

\* m(input[:k]) with the default state
GruFirst ==
    /\ Constructed("GroupedGRU")
    /\ gpart1 = None
    /\ \E k \in 1..(Len(gx) - 1) :
          gpart1' = [k |-> k, res |-> GroupedGRU_forward(gmod, SubSeq(gx, 1, k), None)]
    /\ UNCHANGED <<gmod, gx, gout, gpart2, notG>>

\* m(input[k:], state) with the state the first call returned
GruSecond ==
    /\ Constructed("GroupedGRU")
    /\ gpart1 # None /\ gpart2 = None
    /\ gpart2' = GroupedGRU_forward(gmod, SubSeq(gx, gpart1.k + 1, Len(gx)),
                                    gpart1.res.state)
    /\ UNCHANGED <<gmod, gx, gout, gpart1, notG>>

NextG ==
    \/ NewGroupedLinear \/ NewGroupedGRULayer \/ NewGroupedGRU
    \/ LinearForward \/ GruLayerForward \/ GruForward \/ GruFirst \/ GruSecond
SpecG == InitG /\ [][NextG]_vars

-----------------------------------------------------------------------------
(* Grouped blocks: properties *)

\* to[c*G+g] = from[g*C+c] for the 0-based group g and channel c, C = Len(from) / G
MovesToInterleaved(from, to, G) ==
    LET C == Len(from) \div G
    IN  \A g \in 0..(G - 1), c \in 0..(C - 1) : to[c * G + g + 1] = from[g * C + c + 1]

\* C3: with shuffle enabled and G > 1, the shuffle of GroupedLinear.forward and the
\* shuffle between the layers of GroupedGRU.forward move the element at flat
\* position g*C+c of the concatenated group outputs to flat position c*G+g
C3_ShuffleMovesToInterleaved ==
    /\ (Constructed("GroupedLinear") /\ gmod.shuffle /\ gout # None)
          => MovesToInterleaved(gout.cat, gout.output, gmod.groups)
    /\ (Constructed("GroupedGRU") /\ gout # None)
          => \A l \in 1..Len(gout.layers) :
                gout.layers[l].shuffled =>
                    \A t \in 1..Len(gx) :
                        MovesToInterleaved(gout.layers[l].cat[t], gout.layers[l].next[t],
                                           gmod.groups)

\* Both parts of a split call and the whole call have been made on a GroupedGRU
SplitDone ==
    Constructed("GroupedGRU") /\ gout # None /\ gpart1 # None /\ gpart2 # None

\* C6: for a forward-only GroupedGRU, forward on the first part with the default
\* state and then on the second part with the returned state gives the outputs
\* of every frame and the final state of one forward call on the whole sequence
C6_SplitEqualsWhole ==
    (SplitDone /\ ~gmod.bidirectional) =>
        /\ gpart1.res.output \o gpart2.output = gout.output
        /\ gpart2.state = gout.state

C6_Witness ==
    /\ SplitDone /\ ~gmod.bidirectional
    /\ gmod.num_layers = 2 /\ gmod.groups = 2 /\ gmod.shuffle /\ gmod.add_outputs
    /\ Len(gx) = 3 /\ gpart1.k = 2
    /\ gpart1.res.state # ZeroState(Len(gpart1.res.state), gmod.hidden_size)
    /\ gpart1.res.output \o gpart2.output = gout.output
    /\ gpart2.state = gout.state

\* The constructor arguments of gmod break the divisibility precondition
NotDivisible ==
    \/ gmod.args.input_size % gmod.args.groups # 0
    \/ gmod.args.hidden_size % gmod.args.groups # 0

\* C10: constructing a grouped block with an input_size or a hidden_size that
\* groups does not divide raises in the constructor, before any sub-layer is
\* created, and no forward call runs on it
C10_ConstructorRejects ==
    (gmod # None /\ NotDivisible) =>
        /\ gmod.status = "AssertionError"
        /\ gmod.sublayers = 0
        /\ gout = None /\ gpart1 = None /\ gpart2 = None

C10_Witness ==
    /\ gmod # None /\ gmod.cls = "GroupedGRU"
    /\ gmod.args.input_size % gmod.args.groups = 0
    /\ gmod.args.hidden_size % gmod.args.groups # 0
    /\ gmod.status = "AssertionError" /\ gmod.sublayers = 0
    /\ gout = None

\* The last dimension of every frame of a [T][width] output
Widths(output) == {Len(output[t]) : t \in 1..Len(output)}

\* C11 as stated: the last dimension of the output of GroupedLinear.forward and
\* of GroupedGRU.forward equals the configured hidden_size, for every groups,
\* shuffle, add_outputs, num_layers and both bidirectional settings
C11_WidthIsHiddenSize ==
    /\ (Constructed("GroupedLinear") /\ gout # None)
          => Len(gout.output) = gmod.args.hidden_size
    /\ (Constructed("GroupedGRU") /\ gout # None)
          => Widths(gout.output) = {gmod.args.hidden_size}

\* C11 amended: the last dimension of the output of GroupedLinear.forward is
\* hidden_size, and that of GroupedGRU.forward is hidden_size * num_directions
\* (hidden_size forward-only, 2 * hidden_size bidirectional)
C11_WidthIsHiddenTimesDirections ==
    /\ (Constructed("GroupedLinear") /\ gout # None)
          => Len(gout.output) = gmod.args.hidden_size
    /\ (Constructed("GroupedGRU") /\ gout # None)
          => Widths(gout.output) =
                 {gmod.args.hidden_size * (IF gmod.bidirectional THEN 2 ELSE 1)}

C11_Witness ==
    /\ Constructed("GroupedGRU") /\ gout # None
    /\ gmod.bidirectional /\ gmod.num_layers = 2 /\ gmod.groups = 2
    /\ gmod.shuffle /\ gmod.add_outputs
    /\ gmod.args.hidden_size = 4
    /\ Len(gx) = 2
    /\ Widths(gout.output) = {8}

\* The constructor arguments of gmod meet the stated precondition
Divisible ==
    /\ gmod.args.groups >= 1
    /\ gmod.args.input_size % gmod.args.groups = 0
    /\ gmod.args.hidden_size % gmod.args.groups = 0

\* C16: every configuration with groups >= 1 that divides input_size and
\* hidden_size is accepted by GroupedGRULayer and GroupedGRU, as it is by
\* GroupedLinear: no further divisibility condition is imposed on hidden_size
C16_DivisibleIsAccepted ==
    (gmod # None /\ Divisible) => gmod.status = "ok"


-----------------------------------------------------------------------------
(* ERB filterbank *)

MaxBands == 2
MaxWidth == 3

\* b_pts = np.cumsum([0] + widths)[:-1]: the 0-based first bin of band i
b_pts(widths) == Tensor([i \in 1..Len(widths) |-> ISum(SubSeq(widths, 1, i - 1))])

\* The 0/1 matrix [n_freqs][bands] of the loop fb[b : b + w, i] = 1
fb_ones(widths) ==
    LET b == b_pts(widths)
    IN  Tensor([f \in 1..ISum(widths) |-> Tensor([i \in 1..Len(widths) |->
            IF b[i] < f /\ f <= b[i] + widths[i] THEN FInt(1) ELSE FInt(0)])])

MatT(m) == Tensor([c \in 1..Len(m[1]) |-> Tensor([r \in 1..Len(m) |-> m[r][c]])])

\* fb / fb.sum(dim=0): every column divided by its sum
DivColSums(m) ==
    LET sums == Tensor([c \in 1..Len(m[1]) |-> FSum([r \in 1..Len(m) |-> m[r][c]])])
    IN  Tensor([r \in 1..Len(m) |-> Tensor([c \in 1..Len(m[1]) |->
            FDiv(m[r][c], sums[c])])])

\* fb / fb.sum(dim=1, keepdim=True): every row divided by its sum
DivRowSums(m) ==
    Tensor([r \in 1..Len(m) |-> Tensor([c \in 1..Len(m[r]) |->
        FDiv(m[r][c], FSum(m[r]))])])

\* erb_fb with the normalisation left out
erb_fb_unnormalized(widths, normalized, inverse) ==
    IF inverse THEN MatT(fb_ones(widths)) ELSE fb_ones(widths)

\* erb_fb(widths, sr, normalized, inverse); sr only sizes all_freqs
erb_fb(widths, normalized, inverse) ==
    LET fb == fb_ones(widths)
    IN  IF inverse
        THEN IF ~normalized THEN DivRowSums(MatT(fb)) ELSE MatT(fb)
        ELSE IF normalized THEN DivColSums(fb) ELSE fb

\* torch.matmul(x, m) of a vector x[n] and a matrix m[n][k]
MatMul(x, m) ==
    Tensor([c \in 1..Len(m[1]) |-> FSum([r \in 1..Len(x) |-> FMul(x[r], m[r][c])])])

\* Band widths as the analysis library produces them: every band has a bin
ErbWidths == UNION {[1..n -> 1..MaxWidth] : n \in 1..MaxBands}
ErbVals == {FInt(0), FInt(3)}

notErb == <<dfVars, unVars, gVars, maskVars>>

InitErb ==
    /\ erb_widths \in ErbWidths
    /\ erb_x \in [1..ISum(erb_widths) -> ErbVals]
    /\ erb_out = [bands |-> None, bins |-> None]
    /\ IdleDf /\ IdleUn /\ IdleG /\ IdleMask

\* py_erb = torch.matmul(input_abs, erb)
ErbForward ==
    /\ erb_out.bands = None
    /\ erb_out' = [erb_out EXCEPT !.bands = MatMul(erb_x, erb_fb(erb_widths, TRUE, FALSE))]
    /\ UNCHANGED <<erb_widths, erb_x, notErb>>

\* py_out = torch.matmul(py_erb, erb_inverse)
ErbInverse ==
    /\ erb_out.bands # None /\ erb_out.bins = None
    /\ erb_out' = [erb_out EXCEPT
                      !.bins = MatMul(erb_out.bands, erb_fb(erb_widths, TRUE, TRUE))]
    /\ UNCHANGED <<erb_widths, erb_x, notErb>>

NextErb == ErbForward \/ ErbInverse
SpecErb == InitErb /\ [][NextErb]_vars

\* The 1-based bins of band i, and the band that contains bin f
BandBins(widths, i) ==
    (ISum(SubSeq(widths, 1, i - 1)) + 1)..ISum(SubSeq(widths, 1, i))
BandOf(widths, f) == CHOOSE i \in 1..Len(widths) : f \in BandBins(widths, i)

RECURSIVE SetSum(_, _)
SetSum(x, S) ==
    IF S = {} THEN FInt(0)
    ELSE LET f == CHOOSE f \in S : TRUE IN FAdd(x[f], SetSum(x, S \ {f}))

\* The arithmetic mean of x over the bins of the band that contains f
BandMean(widths, x, f) ==
    LET S == BandBins(widths, BandOf(widths, f))
    IN  FDiv(SetSum(x, S), FInt(Cardinality(S)))

\* C8: x times erb_fb(widths, normalized=True), then times
\* erb_fb(widths, inverse=True), is at every bin f the arithmetic mean of x over
\* the bins of the band that contains f
C8_ForwardInverseIsBandMean ==
    (erb_out # None /\ erb_out.bins # None) =>
        /\ Len(erb_out.bins) = Len(erb_x)
        /\ \A f \in 1..Len(erb_x) : erb_out.bins[f] = BandMean(erb_widths, erb_x, f)

C8_Witness ==
    /\ erb_out # None /\ erb_out.bins # None
    /\ erb_widths = <<1, 3>>
    /\ erb_x = <<FInt(3), FInt(0), FInt(3), FInt(0)>>
    /\ erb_out.bands = <<FInt(3), FInt(1)>>
    /\ erb_out.bins = <<FInt(3), FInt(1), FInt(1), FInt(1)>>

-----------------------------------------------------------------------------
(* ERB filterbank: construction for a spectrum of n_freq bins *)

MaxFreqs == 4

\* torch.matmul(x, m) with its shape check: len(x) must be the rows of m
matmul_checked(x, m) ==
    IF Len(x) = Len(m) THEN [status |-> "ok", val |-> MatMul(x, m)]
    ELSE [status |-> "RuntimeError", val |-> None]

\* A spectrum of n_freq = Len(erb_x) bins and band widths chosen independently
InitErbBuild ==
    /\ erb_widths \in ErbWidths
    /\ \E n_freq \in 1..MaxFreqs : erb_x \in [1..n_freq -> ErbVals]
    /\ erb_out = [status |-> "none", fb |-> None, bands |-> None]
    /\ IdleDf /\ IdleUn /\ IdleG /\ IdleMask

\* erb = erb_fb(widths, sr): returns the matrix, there is no raise in erb_fb
ErbBuild ==
    /\ erb_out.status = "none"
    /\ erb_out' = [erb_out EXCEPT !.status = "built",
                                  !.fb = erb_fb(erb_widths, TRUE, FALSE)]
    /\ UNCHANGED <<erb_widths, erb_x, notErb>>

\* py_erb = torch.matmul(input_abs, erb)
ErbApply ==
    /\ erb_out.status = "built"
    /\ LET r == matmul_checked(erb_x, erb_out.fb)
       IN  erb_out' = [erb_out EXCEPT !.status = IF r.status = "ok" THEN "applied"
                                                 ELSE r.status,
                                      !.bands = r.val]
    /\ UNCHANGED <<erb_widths, erb_x, notErb>>

NextErbBuild == ErbBuild \/ ErbApply
SpecErbBuild == InitErbBuild /\ [][NextErbBuild]_vars

\* C12: building the filterbank with widths whose sum exceeds n_freqs fails
\* construction with a configuration error, and no matrix is returned
C12_TooWideFailsConstruction ==
    (erb_out # None /\ erb_out.status # "none" /\ ISum(erb_widths) > Len(erb_x)) =>
        /\ erb_out.status = "ConfigurationError"
        /\ erb_out.fb = None

-----------------------------------------------------------------------------
(* Mask *)

MaskB == 2      \* batch items
MaskT == 1      \* frames

\* Mask(erb_inv_fb, post_filter, eps), with training and clamp_tensor as set on
\* the module; eps is the constructor argument, here 1/1000
Mask_init(widths, post_filter, training, clamp_tensor) ==
    [erb_inv_fb |-> erb_fb(widths, TRUE, TRUE), widths |-> widths,
     post_filter |-> post_filter, training |-> training,
     clamp_tensor |-> clamp_tensor, eps |-> Frac(1, 1000)]

\* sin(pi * m / 2) at the mask values where it is rational
SinHalfPi(m) ==
    CASE m = Frac(0, 1) -> FInt(0)
      [] m = Frac(1, 3) -> Frac(1, 2)
      [] m = Frac(1, 1) -> FInt(1)
      [] m = Frac(5, 3) -> Frac(1, 2)
PfVals == {Frac(0, 1), Frac(1, 3), Frac(1, 1), Frac(5, 3)}

beta == Frac(2, 100)

\* Mask.pf on one mask value
pf(m, eps) ==
    LET mask_sin == FMul(m, SinHalfPi(m))
        q        == FDiv(m, FMax(mask_sin, eps))
    IN  FDiv(FMul(FAdd(FInt(1), beta), m),
             FAdd(FInt(1), FMul(beta, FMul(q, q))))

RECURSIVE Pow10(_)
Pow10(n) == IF n = 0 THEN 1 ELSE 10 * Pow10(n - 1)

\* 10 ** (-atten_lim / 20) for a limit that is a multiple of 20 dB
db_to_amp(db) == Frac(1, Pow10(db \div 20))

\* clamp(min=lo) / clamp_min(lo) of one value
clamp_none(x, lo) == x
clamp_min(x, lo) == FMax(x, lo)

\* Mask.forward: the mask that enters the clamp, the mask after it, and the
\* returned spectrum
Mask_forward(m, spec_in, mask, lim) ==
    LET B  == Len(mask)
        T  == Len(mask[1])
        Fe == Len(mask[1][1])
        prefloor == IF ~m.training /\ m.post_filter
                    THEN Tensor([b \in 1..B |-> Tensor([t \in 1..T |->
                             Tensor([e \in 1..Fe |-> pf(mask[b][t][e], m.eps)])])])
                    ELSE mask
        amp      == IF lim = None THEN None
                    ELSE Tensor([b \in 1..Len(lim) |-> db_to_amp(lim[b])])
        floored  == IF lim = None THEN prefloor
                    ELSE IF m.clamp_tensor
                    THEN Tensor([b \in 1..B |-> Tensor([t \in 1..T |->
                             Tensor([e \in 1..Fe |->
                                 clamp_min(prefloor[b][t][e], amp[b])])])])
                    ELSE Tensor([i \in 1..Len(amp) |-> Tensor([t \in 1..T |->
                             Tensor([e \in 1..Fe |->
                                 clamp_min(prefloor[i][t][e], amp[i])])])])
        lin      == Tensor([b \in 1..B |-> Tensor([t \in 1..T |->
                        MatMul(floored[b][t], m.erb_inv_fb)])])
    IN  [prefloor |-> prefloor, floored |-> floored,
         out |-> Tensor([b \in 1..B |-> Tensor([t \in 1..T |->
                     Tensor([f \in 1..Len(lin[b][t]) |->
                         <<FMul(FInt(spec_in[b][t][f][1]), lin[b][t][f]),
                           FMul(FInt(spec_in[b][t][f][2]), lin[b][t][f])>>])])])]

MaskWidths == {<<1>>, <<2, 1>>, <<1, 3>>}
MaskLims == {0, 20}

\* Band masks [B][T][Fe] that alternate between two values
MaskInputs(Fe, vals) ==
    {Tensor([b \in 1..MaskB |-> Tensor([t \in 1..MaskT |-> Tensor([e \in 1..Fe |->
         IF (b + t + e) % 2 = 0 THEN v1 ELSE v2])])]) : v1 \in vals, v2 \in vals}

\* Spectra [B][T][F] of complex bins, every bin different and non-zero
MaskSpec(F) ==
    Tensor([b \in 1..MaskB |-> Tensor([t \in 1..MaskT |-> Tensor([f \in 1..F |->
        <<b + t, f>>])])])

notMask == <<dfVars, unVars, gVars, erbVars>>

InitMask ==
    /\ \E widths \in MaskWidths, post_filter \in BOOLEAN, training \in BOOLEAN,
          clamp_tensor \in BOOLEAN :
          /\ mask_cfg = Mask_init(widths, post_filter, training, clamp_tensor)
          /\ mask_spec = MaskSpec(ISum(widths))
          /\ mask_in \in MaskInputs(Len(widths),
                                    IF ~training /\ post_filter THEN PfVals
                                    ELSE PfVals \cup {Frac(3, 10)})
    /\ atten_lim \in {None} \cup [1..MaskB -> MaskLims]
    /\ mask_out = None
    /\ IdleDf /\ IdleUn /\ IdleG /\ IdleErb

\* m(spec, mask, atten_lim)
MaskForward ==
    /\ mask_out = None
    /\ mask_out' = Mask_forward(mask_cfg, mask_spec, mask_in, atten_lim)
    /\ UNCHANGED <<mask_cfg, mask_spec, mask_in, atten_lim, notMask>>

NextMask == MaskForward
SpecMask == InitMask /\ [][NextMask]_vars

\* C9: for a batch item whose attenuation limit is 0 dB the floor is 1: every
\* band-mask value below 1 is clamped up to 1 before the ERB-inverse projection,
\* and the masked spectrum of every bin of that band equals the input spectrum
C9_ZeroDbKeepsSpectrum ==
    (mask_out # None /\ atten_lim # None) =>
        \A b \in 1..MaskB :
            atten_lim[b] = 0 =>
                /\ db_to_amp(atten_lim[b]) = FInt(1)
                /\ \A t \in 1..MaskT, e \in 1..Len(mask_cfg.widths) :
                      FLess(mask_out.prefloor[b][t][e], FInt(1)) =>
                          /\ mask_out.floored[b][t][e] = FInt(1)
                          /\ \A f \in BandBins(mask_cfg.widths, e) :
                                mask_out.out[b][t][f] =
                                    <<FInt(mask_spec[b][t][f][1]),
                                      FInt(mask_spec[b][t][f][2])>>

C9_Witness ==
    /\ mask_out # None /\ atten_lim = <<0, 20>>
    /\ mask_cfg.widths = <<1, 3>>
    /\ mask_in[1][1] = <<Frac(1, 3), Frac(3, 10)>>
    /\ mask_out.floored[1][1] = <<FInt(1), FInt(1)>>
    /\ mask_out.floored[2][1] = <<Frac(3, 10), Frac(1, 3)>>
    /\ \A f \in 1..4 : mask_out.out[1][1][f] = <<FInt(1 + 1), FInt(f)>>
    /\ mask_out.out[2][1][1] = <<Frac(9, 10), Frac(3, 10)>>

=============================================================================
